---- MODULE Spec2Model ----
(***************************************************************************)
(* A model of the blockchain engine: entities and their binary codec, the  *)
(* chain traversal and validation of core/block and core/transaction, the  *)
(* persistence helpers and the parallel miner of core/helpers.             *)
(*                                                                         *)
(* Conventions.                                                            *)
(*  - A byte string is a sequence of fields [k |-> kind, v |-> value]; the *)
(*    kind gives the width ("raw32", "raw8", "raw526", "q" = i64, "H" =    *)
(*    u16, "f" = f32).  Decoders read fields in the order of the source    *)
(*    and fail where the source fails.                                     *)
(*  - SHA-256 is collision free: a digest is [h |-> preimage].             *)
(*  - A Block object is the chain that ends at it: a non-empty sequence of *)
(*    block records, genesis first; previous_block is the sequence without *)
(*    its last element, and None is the empty sequence.                    *)
(*  - A wallet is named by its address.                                    *)
(***************************************************************************)
EXTENDS Integers, Sequences, FiniteSets, TLC

VARIABLES
    tip,          \* the chain object the caller holds (<<>> is None)
    chainStore,   \* data/blockchain.bin: [exists, bytes]
    mempool,      \* data/mempool.bin: [exists, bytes]
    out,          \* outcome of the last completed call
    pc,           \* position of mine_block's coordinator
    miner,        \* locals of the running mine_block call
    wallets       \* data/wallets: the private key saved under each address

vars == <<tip, chainStore, mempool, out, pc, miner, wallets>>

(***************************************************************************)
(* Bounds of the model.                                                    *)
(***************************************************************************)
MaxChainTxs == 3      \* most transactions in the chain built
MaxNonce == 3         \* stands for MAX_INT64, the last nonce of the space
MaxMempool == 2       \* most transactions saved to the mempool

Wallets == {"A", "B"}
CoinbaseTimes == {1}
BlockTimes == {1}
BlockNonces == {0, 1}

REWARD == 10

(***************************************************************************)
(* Small helpers.                                                          *)
(***************************************************************************)
RECURSIVE Concat(_)
Concat(ss) == IF ss = <<>> THEN <<>> ELSE Head(ss) \o Concat(Tail(ss))

RECURSIVE SumSeq(_)
SumSeq(s) == IF s = <<>> THEN 0 ELSE Head(s) + SumSeq(Tail(s))

Prefix(s, n) == SubSeq(s, 1, n)

Front(s) == SubSeq(s, 1, Len(s) - 1)

Last(s) == s[Len(s)]

RECURSIVE SetToSeqs(_)
SetToSeqs(S) ==
    IF S = {} THEN {<<>>}
    ELSE UNION {{<<x>> \o r : r \in SetToSeqs(S \ {x})} : x \in S}

(***************************************************************************)
(* Fields of a byte string.                                                *)
(***************************************************************************)
Raw32(d) == [k |-> "raw32", v |-> d]
Raw8(a) == [k |-> "raw8", v |-> a]
Raw526(w) == [k |-> "raw526", v |-> w]
I64(x) == [k |-> "q", v |-> x]
U16(x) == [k |-> "H", v |-> x]

\* struct.pack('>f', x): integers below 2^24 are exact in binary32, the
\* integers from 2^24 to 2^25 round to the nearest even one (ties to even).
Round32(x) ==
    IF x <= 16777216 THEN x
    ELSE IF x % 2 = 0 THEN x
    ELSE IF ((x - 1) \div 2) % 2 = 0 THEN x - 1 ELSE x + 1

F32(x) == [k |-> "f", v |-> Round32(x)]

Width(t) ==
    CASE t.k = "raw32" -> 32
      [] t.k = "raw8" -> 8
      [] t.k = "raw526" -> 526
      [] t.k = "q" -> 8
      [] t.k = "H" -> 2
      [] t.k = "f" -> 4

sha256(b) == [h |-> b]

\* bytes(32)
ZeroId == [h |-> <<>>]

(***************************************************************************)
(* Entities and their serialization (__bytes__).                           *)
(***************************************************************************)
Outpoint(txid, i) == [transaction_id |-> txid, output_index |-> i]

Output(a, m) == [address |-> a, amount |-> m]

OutpointBytes(o) == <<Raw32(o.transaction_id), U16(o.output_index)>>

InputBytes(i) == OutpointBytes(i.outpoint)

OutputBytes(o) == <<Raw8(o.address), F32(o.amount)>>

SignatureBytes(s) == <<Raw526(s.wallet), Raw32(s.signature)>>

\* BytesHelper.from_array, one operator per item class
InputsArray(s) == <<U16(Len(s))>> \o Concat([i \in 1..Len(s) |-> InputBytes(s[i])])

OutputsArray(s) == <<U16(Len(s))>> \o Concat([i \in 1..Len(s) |-> OutputBytes(s[i])])

SignaturesArray(s) == <<U16(Len(s))>> \o Concat([i \in 1..Len(s) |-> SignatureBytes(s[i])])

TxBytes(t) ==
    <<I64(t.timestamp)>> \o InputsArray(t.inputs) \o OutputsArray(t.outputs)
        \o SignaturesArray(t.signatures)

TxId(t) == sha256(TxBytes(t))

TransactionsArray(s) == <<U16(Len(s))>> \o Concat([i \in 1..Len(s) |-> TxBytes(s[i])])

\* Transaction.__init__ followed by the assignment of a timestamp
Transaction(ts, ins, outs) ==
    [cls |-> "Transaction", timestamp |-> ts, inputs |-> ins, outputs |-> outs,
     signatures |-> <<>>]

\* CoinbaseTransaction.__init__
CoinbaseTransaction(ts, a) ==
    [cls |-> "CoinbaseTransaction", timestamp |-> ts, inputs |-> <<>>,
     outputs |-> <<Output(a, REWARD)>>, signatures |-> <<>>]

IsCoinbase(t) == t.cls = "CoinbaseTransaction"

\* Wallet.sign_transaction: the digest of the signature over the transaction id
SignatureOf(w, t) == [wallet |-> w, signature |-> sha256(<<Raw526(w), Raw32(TxId(t))>>)]

\* CanSign that lets a wallet sign again
CanSignAgain(t, w) == TRUE

\* Transaction.sign: refuses a wallet that has signed already
CanSign(t, w) == \A i \in 1..Len(t.signatures) : t.signatures[i].wallet # w

Sign(t, w) == [t EXCEPT !.signatures = Append(@, SignatureOf(w, t))]

(***************************************************************************)
(* Merkle root (HashHelper.calculate_merkle_root).  A branch is a byte     *)
(* string: a 32-byte digest, or the empty string that pads an odd level.   *)
(* The source returns branches[0]; for no leaves that is an IndexError,    *)
(* which the callers below test for before they ask for the root.          *)
(***************************************************************************)
MerkleLevel(br) ==
    [i \in 1..(Len(br) \div 2) |-> <<Raw32(sha256(br[2 * i - 1] \o br[2 * i]))>>]

\* the loop padding an odd level with a copy of its last branch
RECURSIVE MerkleLoopDuplicating(_)
MerkleLoopDuplicating(br) ==
    IF Len(br) <= 1 THEN br
    ELSE MerkleLoopDuplicating(
             MerkleLevel(IF Len(br) % 2 # 0 THEN Append(br, br[Len(br)]) ELSE br))

RECURSIVE MerkleLoop(_)
MerkleLoop(br) ==
    IF Len(br) <= 1 THEN br
    ELSE MerkleLoop(MerkleLevel(IF Len(br) % 2 # 0 THEN Append(br, <<>>) ELSE br))

calculate_merkle_root(leaves) ==
    MerkleLoop([i \in 1..Len(leaves) |-> <<Raw32(leaves[i])>>])[1][1].v

\* Transaction.calculate_merkle_root
TxMerkleRoot(txs) == calculate_merkle_root([i \in 1..Len(txs) |-> TxId(txs[i])])

(***************************************************************************)
(* Blocks.  c is the chain ending at the block.                            *)
(***************************************************************************)
BlockRec(txs, ts, n) == [transactions |-> txs, timestamp |-> ts, nonce |-> n]

RECURSIVE block_header(_)
block_header(c) ==
    LET blk == Last(c) IN
    <<Raw32(IF Len(c) = 1 THEN ZeroId ELSE sha256(block_header(Front(c)))),
      Raw32(TxMerkleRoot(blk.transactions)),
      I64(blk.timestamp),
      I64(blk.nonce)>>

BlockId(c) == sha256(block_header(c))

\* Block.__bytes__
BlockBytes(c) == block_header(c) \o TransactionsArray(Last(c).transactions)

\* Block.__init__: at most one CoinbaseTransaction among the transactions
CoinbaseCount(txs) == Cardinality({i \in 1..Len(txs) : IsCoinbase(txs[i])})

\* the assertion of Block.__init__ off by one
BlockInitOkUpToTwo(txs) == CoinbaseCount(txs) <= 2

\* the assertion of Block.__init__ on the coinbase transactions
BlockInitOk(txs) == CoinbaseCount(txs) <= 1

\* Block.expand_chain: the blocks from genesis to this one, in that order,
\* keyed by their ids
expand_chain(c) == [i \in 1..Len(c) |-> Prefix(c, i)]

expand_chain_keys(c) == [i \in 1..Len(c) |-> BlockId(Prefix(c, i))]

\* The serialized chain, genesis first
ChainBytes(c) == Concat([i \in 1..Len(c) |-> BlockBytes(Prefix(c, i))])

\* Block.expand_transactions: a dict keyed by transaction id, in the order
\* of first insertion
RECURSIVE Dedup(_)
Dedup(s) ==
    IF s = <<>> THEN <<>>
    ELSE LET r == Dedup(Front(s)) IN
         IF \E i \in 1..Len(r) : TxId(r[i]) = TxId(Last(s)) THEN r ELSE Append(r, Last(s))

expand_transactions(c) ==
    Dedup(Concat([i \in 1..Len(c) |-> c[i].transactions]))

(***************************************************************************)
(* The UTXO set (Block.unspent_outpoints): a dict from outpoint to output, *)
(* here the set of its items.  A filter is NoFilter (addresses is None) or *)
(* OnlyFor(S).                                                             *)
(***************************************************************************)
NoFilter == [all |-> TRUE, only |-> {}]

OnlyFor(S) == [all |-> FALSE, only |-> S]

Item(o, x) == [outpoint |-> o, output |-> x]

Keys(d) == {e.outpoint : e \in d}

\* unspent_outpoints that forgets to delete the outpoints an input names
DelInputsKept(d, t) == d

\* del unspent_outpoints[...] under suppress(KeyError), for every input
DelInputs(d, t) == {e \in d : \A i \in 1..Len(t.inputs) : t.inputs[i].outpoint # e.outpoint}

\* the insertion of the outputs without the test of their address
PutOutputsAnyAddress(d, t, filter) ==
    LET new == {Item(Outpoint(TxId(t), i - 1), t.outputs[i]) : i \in 1..Len(t.outputs)}
    IN {e \in d : e.outpoint \notin Keys(new)} \cup new

\* unspent_outpoints[TransactionOutpoint(transaction.id(), i)] = tx_output
PutOutputs(d, t, filter) ==
    LET new == {Item(Outpoint(TxId(t), i - 1), t.outputs[i]) :
                    i \in {j \in 1..Len(t.outputs) :
                              filter.all \/ t.outputs[j].address \in filter.only}}
    IN {e \in d : e.outpoint \notin Keys(new)} \cup new

RECURSIVE UnspentFold(_, _, _)
UnspentFold(txs, d, filter) ==
    IF txs = <<>> THEN d
    ELSE UnspentFold(Tail(txs), PutOutputs(DelInputs(d, Head(txs)), Head(txs), filter), filter)

\* unspent_outpoints that lists every output ever created, spent or not
RECURSIVE CreatedFold(_, _, _)
CreatedFold(txs, d, filter) ==
    IF txs = <<>> THEN d
    ELSE CreatedFold(Tail(txs), PutOutputs(d, Head(txs), filter), filter)

unspent_outpointsEverCreated(c, filter) == CreatedFold(expand_transactions(c), {}, filter)

unspent_outpoints(c, filter) == UnspentFold(expand_transactions(c), {}, filter)

\* Block.sum_unspent_outpoints, read at one address (the defaultdict gives 0)
RECURSIVE SumItems(_)
SumItems(d) ==
    IF d = {} THEN 0
    ELSE LET e == CHOOSE x \in d : TRUE IN e.output.amount + SumItems(d \ {e})

sum_unspent_outpoints(d, a) == SumItems({e \in d : e.output.address = a})

(***************************************************************************)
(* Transaction validity (Transaction.valid, Transaction._signed,           *)
(* CoinbaseTransaction.valid).                                             *)
(***************************************************************************)
\* the loop over self.inputs without the del of the outpoint it counted
RECURSIVE SpendInputsKeeping(_, _, _)
SpendInputsKeeping(ins, d, total) ==
    IF ins = <<>> THEN [ok |-> TRUE, total |-> total]
    ELSE LET hit == {e \in d : e.outpoint = Head(ins).outpoint} IN
         IF hit = {} THEN [ok |-> FALSE, total |-> total]
         ELSE SpendInputsKeeping(Tail(ins), d,
                                 total + (CHOOSE e \in hit : TRUE).output.amount)

\* the loop over self.inputs: [ok, total] with the dict shrinking as it goes
RECURSIVE SpendInputs(_, _, _)
SpendInputs(ins, d, total) ==
    IF ins = <<>> THEN [ok |-> TRUE, total |-> total]
    ELSE LET hit == {e \in d : e.outpoint = Head(ins).outpoint} IN
         IF hit = {} THEN [ok |-> FALSE, total |-> total]
         ELSE SpendInputs(Tail(ins), d \ hit,
                          total + (CHOOSE e \in hit : TRUE).output.amount)

TotalSpent(t) == SumSeq([i \in 1..Len(t.outputs) |-> t.outputs[i].amount])

\* the output an outpoint names, looked up in the transactions of the chain
Referenced(c, o) ==
    LET txs == expand_transactions(c)
        t == txs[CHOOSE i \in 1..Len(txs) : TxId(txs[i]) = o.transaction_id]
    IN t.outputs[o.output_index + 1]

\* _signed that accepts whatever signatures the transaction carries
_signedByAnyone(t, c) == TRUE

_signed(t, c) ==
    LET signed_addresses == {t.signatures[i].wallet : i \in 1..Len(t.signatures)} IN
    \A i \in 1..Len(t.inputs) :
        Referenced(c, t.inputs[i].outpoint).address \in signed_addresses

\* Transaction.valid without the comparison of the amounts
TxValidAnyAmount(t, c) ==
    IF IsCoinbase(t) THEN TRUE
    ELSE SpendInputs(t.inputs,
                     IF c = <<>> THEN {} ELSE unspent_outpoints(c, NoFilter), 0).ok
         /\ _signed(t, c)

TxValid(t, c) ==
    IF IsCoinbase(t) THEN TRUE
    ELSE LET spent == SpendInputs(t.inputs,
                                  IF c = <<>> THEN {} ELSE unspent_outpoints(c, NoFilter), 0)
         IN IF ~spent.ok THEN FALSE
            ELSE spent.total >= TotalSpent(t) /\ _signed(t, c)

(***************************************************************************)
(* Proof of work.  The comparison id() < TARGET reads the leading bytes of *)
(* the digest; LeadingBits stands for them, a fixed function of the header *)
(* fields: a header with an even timestamp has no nonce below the target,  *)
(* any other header has every second one.                                  *)
(***************************************************************************)
LeadingBits(c) ==
    LET blk == Last(c) IN
    IF blk.timestamp % 2 = 0 THEN 1
    ELSE (Len(c) + Len(blk.transactions) + blk.nonce) % 2

\* how id() compares with TARGET = bytes(2) + b'\xff' * 30 as byte strings of
\* equal length: -1 below, 0 equal, 1 above; among the digests that are not
\* below, those of the blocks at an odd height stand for the target itself
IdCompareTarget(c) ==
    IF LeadingBits(c) = 0 THEN -1
    ELSE IF Len(c) % 2 = 1 THEN 0 ELSE 1

\* the proof test with > in place of >=
BelowOrAtTarget(c) == ~(IdCompareTarget(c) > 0)

\* not (block.id() >= TARGET)
BelowTarget(c) == ~(IdCompareTarget(c) >= 0)

\* Block.valid_proof
valid_proof(c, shallow) ==
    LET blocks == IF shallow THEN <<c>> ELSE expand_chain(c) IN
    \A i \in 1..Len(blocks) : BelowTarget(blocks[i])

\* the check of each transaction against the chain that holds the earlier
\* transactions of its own block
valid_transactionsSequential(c, shallow) ==
    LET blocks == IF shallow THEN <<c>> ELSE expand_chain(c) IN
    \A i \in 1..Len(blocks) :
        LET blk == Last(blocks[i]) IN
        \A j \in 1..Len(blk.transactions) :
            TxValid(blk.transactions[j],
                    IF j = 1 THEN Front(blocks[i])
                    ELSE Append(Front(blocks[i]),
                                [blk EXCEPT !.transactions = SubSeq(@, 1, j - 1)]))

\* Block.valid_transactions
valid_transactions(c, shallow) ==
    LET blocks == IF shallow THEN <<c>> ELSE expand_chain(c) IN
    \A i \in 1..Len(blocks) :
        \A j \in 1..Len(Last(blocks[i]).transactions) :
            TxValid(Last(blocks[i]).transactions[j], Front(blocks[i]))

\* Block.valid
valid(c, shallow) == valid_proof(c, shallow) /\ valid_transactions(c, shallow)

(***************************************************************************)
(* Decoders.  Each returns [err, b, v]: err is "ok" or the exception the   *)
(* source raises, b the remaining bytes, v the entity.  load_safe turns    *)
(* struct.error into ValueError; every other exception passes through it.  *)
(* A read that finds enough bytes but a field of another width would cut   *)
(* through the fields; the byte strings handled below never cause one, and *)
(* such a read is reported as "misaligned".                                *)
(***************************************************************************)
\* len(b) >= n
RECURSIVE HasBytes(_, _)
HasBytes(b, n) ==
    n <= 0 \/ (Len(b) > 0 /\ HasBytes(Tail(b), n - Width(Head(b))))

Ok(b, v) == [err |-> "ok", b |-> b, v |-> v]

Fail(e) == [err |-> e, b |-> <<>>, v |-> <<>>]

\* the wallets whose keys are in the registry (data/wallets)
Registry == Wallets

\* BytesHelper.load_raw_data(b, size), and struct.unpack on b[:size] under
\* load_safe: both give ValueError on a short buffer
ReadField(b, kind) ==
    IF ~HasBytes(b, Width([k |-> kind])) THEN Fail("ValueError")
    ELSE IF Head(b).k # kind THEN Fail("misaligned")
    ELSE Ok(Tail(b), Head(b).v)

\* a decoding step r followed by K on its result; an error ends the decoding
Then(r, K(_)) == IF r.err # "ok" THEN r ELSE K(r)

\* TransactionOutpoint.from_bytes (TransactionInput.from_bytes wraps it)
OutpointFromBytes(b) ==
    Then(ReadField(b, "raw32"), LAMBDA r1 :
    Then(ReadField(r1.b, "H"), LAMBDA r2 :
    Ok(r2.b, Outpoint(r1.v, r2.v))))

InputFromBytes(b) ==
    Then(OutpointFromBytes(b), LAMBDA r : Ok(r.b, [outpoint |-> r.v]))

\* TransactionOutput.from_bytes; the constructor asserts amount > 0
OutputFromBytes(b) ==
    Then(ReadField(b, "raw8"), LAMBDA r1 :
    Then(ReadField(r1.b, "f"), LAMBDA r2 :
    IF r2.v <= 0 THEN Fail("AssertionError")
    ELSE Ok(r2.b, Output(r1.v, r2.v))))

\* TransactionSignature.from_bytes: asserts the length, slices, and looks
\* the wallet up in the registry (Wallet.load_by_script)
SignatureFromBytes(b) ==
    IF ~HasBytes(b, 526 + 32) THEN Fail("AssertionError")
    ELSE IF b[1].k # "raw526" \/ b[2].k # "raw32" THEN Fail("misaligned")
    ELSE IF b[1].v \notin Registry THEN Fail("FileNotFoundError")
    ELSE Ok(Tail(Tail(b)), [wallet |-> b[1].v, signature |-> b[2].v])

RECURSIVE ItemFromBytes(_, _)
RECURSIVE ReadItems(_, _, _, _)

\* the loop of BytesHelper.to_array
ReadItems(cls, b, n, acc) ==
    IF n = 0 THEN Ok(b, acc)
    ELSE Then(ItemFromBytes(cls, b), LAMBDA r :
         ReadItems(cls, r.b, n - 1, Append(acc, r.v)))

\* BytesHelper.to_array
to_array(b, cls) ==
    Then(ReadField(b, "H"), LAMBDA r : ReadItems(cls, r.b, r.v, <<>>))

\* Transaction.from_bytes that leaves the timestamp of the new object
DecodedTransactionUnstamped(ts, ins, outs, sigs) ==
    LET t == IF Len(ins) = 0 THEN CoinbaseTransaction(0, outs[1].address)
             ELSE Transaction(0, ins, outs)
    IN [t EXCEPT !.signatures = sigs]

\* the object Transaction.from_bytes builds: no inputs means a coinbase,
\* rebuilt from the address of outputs[0] alone
DecodedTransaction(ts, ins, outs, sigs) ==
    LET t == IF Len(ins) = 0 THEN CoinbaseTransaction(0, outs[1].address)
             ELSE Transaction(0, ins, outs)
    IN [t EXCEPT !.signatures = sigs, !.timestamp = ts]

\* Transaction.from_bytes
TransactionFromBytes(b) ==
    Then(ReadField(b, "q"), LAMBDA r1 :
    Then(to_array(r1.b, "TransactionInput"), LAMBDA r2 :
    Then(to_array(r2.b, "TransactionOutput"), LAMBDA r3 :
    Then(to_array(r3.b, "TransactionSignature"), LAMBDA r4 :
    IF Len(r2.v) = 0 /\ Len(r3.v) = 0 THEN Fail("IndexError")
    ELSE Ok(r4.b, DecodedTransaction(r1.v, r2.v, r3.v, r4.v))))))

ItemFromBytes(cls, b) ==
    CASE cls = "TransactionInput" -> InputFromBytes(b)
      [] cls = "TransactionOutput" -> OutputFromBytes(b)
      [] cls = "TransactionSignature" -> SignatureFromBytes(b)
      [] cls = "Transaction" -> TransactionFromBytes(b)

\* the checks of Block.from_bytes on the decoded fields, in their order
DecodedBlock(prev, previd, root, ts, n, txs, rest) ==
    IF Len(txs) = 0 THEN Fail("IndexError")
    ELSE IF root # TxMerkleRoot(txs) THEN Fail("ValueError")
    ELSE IF ~BlockInitOk(txs) THEN Fail("AssertionError")
    ELSE Ok(rest, Append(prev, BlockRec(txs, ts, n)))

\* the decoding of a block without the comparison of its previous id
BlockFromBytesUnlinked(b, prev) ==
    Then(ReadField(b, "raw32"), LAMBDA r1 :
    Then(ReadField(r1.b, "raw32"), LAMBDA r2 :
    Then(ReadField(r2.b, "q"), LAMBDA r3 :
    Then(ReadField(r3.b, "q"), LAMBDA r4 :
    Then(to_array(r4.b, "Transaction"), LAMBDA r5 :
    DecodedBlock(prev, r1.v, r2.v, r3.v, r4.v, r5.v, r5.b))))))

\* Block.from_bytes (prev is the chain decoded so far) and
\* GenesisBlock.from_bytes (prev is <<>>); v is the chain ending at the block
BlockFromBytes(b, prev) ==
    Then(ReadField(b, "raw32"), LAMBDA r1 :
    IF r1.v # (IF prev = <<>> THEN ZeroId ELSE BlockId(prev)) THEN Fail("ValueError") ELSE
    Then(ReadField(r1.b, "raw32"), LAMBDA r2 :
    Then(ReadField(r2.b, "q"), LAMBDA r3 :
    Then(ReadField(r3.b, "q"), LAMBDA r4 :
    Then(to_array(r4.b, "Transaction"), LAMBDA r5 :
    DecodedBlock(prev, r1.v, r2.v, r3.v, r4.v, r5.v, r5.b))))))

\* GenesisBlock.from_bytes_chain: v is the latest block
RECURSIVE ChainLoop(_, _)
ChainLoop(b, block) ==
    IF Len(b) = 0 THEN Ok(b, block)
    ELSE Then(BlockFromBytes(b, block), LAMBDA r : ChainLoop(r.b, r.v))

from_bytes_chain(b) ==
    Then(BlockFromBytes(b, <<>>), LAMBDA r : ChainLoop(r.b, r.v))

(***************************************************************************)
(* The transactions and blocks a caller of the library can build on top of *)
(* a chain c.                                                              *)
(***************************************************************************)
ChainTxs(c) == Concat([i \in 1..Len(c) |-> c[i].transactions])

AllOutpoints(c) ==
    LET txs == ChainTxs(c) IN
    UNION {{Outpoint(TxId(txs[i]), j - 1) : j \in 1..Len(txs[i].outputs)} : i \in 1..Len(txs)}

\* an outpoint of a transaction that is in no chain
Dangling == Outpoint(ZeroId, 0)

Coinbases == {CoinbaseTransaction(ts, a) : ts \in CoinbaseTimes, a \in Wallets}

\* the transfers tried on each outpoint: timestamp, recipient, amount, signer
TransferForms ==
    {[ts |-> 1, to |-> "A", amount |-> 10, signer |-> "A"],
     [ts |-> 1, to |-> "B", amount |-> 10, signer |-> "A"],
     [ts |-> 1, to |-> "B", amount |-> 20, signer |-> "A"],
     [ts |-> 1, to |-> "B", amount |-> 10, signer |-> "B"]}

Transfer(o, f) ==
    Sign(Transaction(f.ts, <<[outpoint |-> o]>>, <<Output(f.to, f.amount)>>), f.signer)

Transfers(c) ==
    {Transfer(o, f) : o \in AllOutpoints(c), f \in TransferForms}
    \cup {Transfer(Dangling, [ts |-> 1, to |-> "B", amount |-> 10, signer |-> "A"])}

\* a transfer of the output of a coinbase of A by A, whether or not the
\* coinbase is in a chain
CoinbaseSpends ==
    {Transfer(Outpoint(TxId(cb), 0),
              [ts |-> 1, to |-> "B", amount |-> REWARD, signer |-> "A"]) :
        cb \in {x \in Coinbases : x.outputs[1].address = "A"}}

TxChoices(c) == Coinbases \cup Transfers(c) \cup CoinbaseSpends

RECURSIVE SeqsUpTo(_, _)
SeqsUpTo(S, n) ==
    IF n = 0 THEN {<<>>}
    ELSE LET R == SeqsUpTo(S, n - 1) IN
         R \cup {Append(r, x) : r \in {q \in R : Len(q) = n - 1}, x \in S}

(***************************************************************************)
(* Outcomes.                                                               *)
(***************************************************************************)
NoCall == [op |-> "none"]

Idle == [phase |-> "idle"]

Missing == [exists |-> FALSE, bytes |-> <<>>]

File(b) == [exists |-> TRUE, bytes |-> b]

(***************************************************************************)
(* Calls of the chain model.                                               *)
(***************************************************************************)
\* Block(previous_block, transactions) / GenesisBlock(transactions), then
\* the assignment of timestamp and nonce; prev is a chain whose transactions
\* pass valid_transactions(False), whatever its proofs of work
BuildBlock(budget) ==
    /\ pc = "idle"
    /\ Len(ChainTxs(tip)) < budget
    /\ tip = <<>> \/ valid_transactions(tip, FALSE)
    /\ \E txs \in SeqsUpTo(TxChoices(tip), budget - Len(ChainTxs(tip))) \ {<<>>},
          ts \in BlockTimes, n \in BlockNonces :
          IF BlockInitOk(txs)
          THEN /\ tip' = Append(tip, BlockRec(txs, ts, n))
               /\ out' = [op |-> "Block", err |-> "ok", coinbases |-> CoinbaseCount(txs)]
          ELSE /\ tip' = tip
               /\ out' = [op |-> "Block", err |-> "AssertionError",
                          coinbases |-> CoinbaseCount(txs)]

NewBlock ==
    /\ BuildBlock(MaxChainTxs)
    /\ UNCHANGED <<wallets, chainStore, mempool, pc, miner>>

\* tip.valid_proof(shallow), tip.valid_transactions(shallow)
CallValid ==
    /\ pc = "idle"
    /\ tip # <<>>
    /\ out' = [op |-> "valid",
               proof |-> [shallow \in BOOLEAN |-> valid_proof(tip, shallow)],
               transactions |-> [shallow \in BOOLEAN |-> valid_transactions(tip, shallow)]]
    /\ UNCHANGED <<wallets, tip, chainStore, mempool, pc, miner>>

\* sum_unspent_outpoints(tip.unspent_outpoints()), and
\* tip.unspent_outpoints(addresses) for every set of addresses
CallBalance ==
    /\ pc = "idle"
    /\ tip # <<>>
    /\ LET d == unspent_outpoints(tip, NoFilter) IN
       out' = [op |-> "balance", unspent |-> d,
               balances |-> [a \in Wallets |-> sum_unspent_outpoints(d, a)],
               only |-> [S \in SUBSET Wallets |-> unspent_outpoints(tip, OnlyFor(S))]]
    /\ UNCHANGED <<wallets, tip, chainStore, mempool, pc, miner>>

\* blocks no constructor builds, met only as bytes: two coinbase transactions
ForgedBlocks ==
    {BlockRec(<<CoinbaseTransaction(t, "A"), CoinbaseTransaction(t, "B")>>, t, 0) :
        t \in BlockTimes}

\* GenesisBlock.from_bytes_chain on the serialized chain of the tip, or on
\* that chain followed by the bytes of a forged block
CallFromBytesChain ==
    /\ pc = "idle"
    /\ tip # <<>>
    /\ ~chainStore.exists
    /\ \E forged \in {<<>>} \cup {<<f>> : f \in ForgedBlocks} :
          LET r == from_bytes_chain(ChainBytes(tip \o forged)) IN
          out' = [op |-> "from_bytes_chain", forged |-> forged,
                  err |-> r.err, rest |-> r.b, block |-> r.v]
    /\ UNCHANGED <<wallets, tip, chainStore, mempool, pc, miner>>

\* where block i of the chain c starts in ChainBytes(c): its previous id
HeaderAt(c, i) == Len(ChainBytes(Prefix(c, i - 1))) + 1

\* the serialized chain c with the previous id of one block replaced by the
\* id of another block of c or by 32 zero bytes, and c without its genesis
\* block
Relinked(c) ==
    LET b == ChainBytes(c)
        ids == {ZeroId} \cup {BlockId(Prefix(c, k)) : k \in 1..Len(c)}
    IN UNION {{[b EXCEPT ![HeaderAt(c, i)] = Raw32(id)] : id \in ids \ {b[HeaderAt(c, i)].v}} :
                 i \in 1..Len(c)}
       \cup (IF Len(c) < 2 THEN {} ELSE {SubSeq(b, HeaderAt(c, 2), Len(b))})

\* GenesisBlock.from_bytes_chain on a stream of well-formed blocks that do
\* not link
CallFromBytesChainRelinked ==
    /\ pc = "idle"
    /\ tip # <<>>
    /\ ~chainStore.exists
    /\ \E b \in Relinked(tip) :
          LET r == from_bytes_chain(b) IN
          out' = [op |-> "from_bytes_chain, relinked", bytes |-> b,
                  err |-> r.err, rest |-> r.b, block |-> r.v]
    /\ UNCHANGED <<wallets, tip, chainStore, mempool, pc, miner>>

\* the registry holding one key for each wallet of the model
Registered == [a \in Registry |-> [address |-> a, serial |-> 1]]

Init ==
    /\ wallets = Registered
    /\ tip = <<>>
    /\ chainStore = Missing
    /\ mempool = Missing
    /\ out = NoCall
    /\ pc = "idle"
    /\ miner = Idle

Next == NewBlock \/ CallValid \/ CallBalance

Spec == Init /\ [][Next]_vars

(***************************************************************************)
(* Persistence: the chain store data/blockchain.bin, written by            *)
(* save_blockchain or by anything else that can write the file, and read   *)
(* by load_blockchain.                                                     *)
(***************************************************************************)
MaxStoredTxs == 2     \* most transactions in a chain that is persisted
MaxCut == 3           \* most trailing fields cut off a chain file

\* what save_blockchain writes: bytes(block) for each block of the iteration
\* of expand_chain(), which iterates the keys of the mapping, the block ids
SavedBytes(c) == [i \in 1..Len(c) |-> Raw32(expand_chain_keys(c)[i])]

\* the values a 4-byte float holding x turns into when its sign bit or the
\* lowest bit of its exponent is flipped (10.0 and 20.0 differ in that bit)
BitFlips(x) == {0 - x, IF x = REWARD THEN 2 * REWARD ELSE REWARD}

\* the serialized deeply valid chain c of two blocks or more with the amount
\* of one output of a block before the last replaced, every other byte kept
Tampered(c) ==
    IF Len(c) < 2 \/ ~valid(c, FALSE) THEN {}
    ELSE LET b == ChainBytes(c) IN
         UNION {{[b EXCEPT ![i].v = m] : m \in BitFlips(b[i].v)} :
                   i \in {j \in 1..Len(ChainBytes(Front(c))) : b[j].k = "f"}}

\* the contents a chain file may have next to the chain c: its serialized
\* blocks, those cut short, nothing, those followed by a forged block, or
\* those with an amount tampered with
StoreStreams(c) ==
    {[stream |-> IF k = 0 THEN "whole" ELSE "cut",
      bytes |-> Prefix(ChainBytes(c), Len(ChainBytes(c)) - k)] :
        k \in {j \in 0..MaxCut : j <= Len(ChainBytes(c))}}
    \cup {[stream |-> "forged", bytes |-> ChainBytes(c \o <<f>>)] : f \in ForgedBlocks}
    \cup {[stream |-> "tampered", bytes |-> b] : b \in Tampered(c)}

\* BlockchainHelper.load_blockchain on the store s
load_blockchain(s) ==
    IF ~s.exists THEN Ok(<<>>, <<>>)
    ELSE IF Len(s.bytes) = 0 THEN Ok(<<>>, <<>>)
    ELSE Then(from_bytes_chain(s.bytes), LAMBDA r :
         IF ~valid(r.v, FALSE) THEN Fail("ValueError") ELSE Ok(<<>>, r.v))

StoreNewBlock ==
    /\ ~chainStore.exists
    /\ tip = <<>> \/ valid_proof(tip, FALSE)
    /\ BuildBlock(MaxStoredTxs)
    /\ UNCHANGED <<wallets, chainStore, mempool, pc, miner>>

\* BlockchainHelper.save_blockchain(tip)
SaveBlockchain ==
    /\ pc = "idle"
    /\ IF tip = <<>>
       THEN /\ out' = [op |-> "save_blockchain", err |-> "AssertionError", saved |-> tip]
            /\ UNCHANGED chainStore
       ELSE /\ chainStore' = File(SavedBytes(tip))
            /\ out' = [op |-> "save_blockchain", err |-> "ok", saved |-> tip]
    /\ UNCHANGED <<wallets, tip, mempool, pc, miner>>

\* the chain file written by something other than save_blockchain
WriteStore ==
    /\ pc = "idle"
    /\ \E w \in StoreStreams(tip) :
          /\ chainStore' = File(w.bytes)
          /\ out' = [op |-> "write", stream |-> w.stream]
    /\ UNCHANGED <<wallets, tip, mempool, pc, miner>>

\* latest_block = BlockchainHelper.load_blockchain()
LoadBlockchain ==
    /\ pc = "idle"
    /\ LET r == load_blockchain(chainStore) IN
       /\ out' = [op |-> "load_blockchain", err |-> r.err, ret |-> r.v,
                  saved |-> IF out.op = "save_blockchain" /\ out.err = "ok"
                            THEN out.saved ELSE <<>>,
                  written |-> IF out.op = "write" THEN out.stream ELSE "none"]
       /\ tip' = IF r.err = "ok" THEN r.v ELSE tip
    /\ UNCHANGED <<wallets, chainStore, mempool, pc, miner>>

\* the block with its nonce replaced, as the worker's block.nonce = nonce
WithNonce(c, n) == [c EXCEPT ![Len(c)].nonce = n]

\* the search taken from the top of the range downwards
RECURSIVE NonceSearchDown(_, _, _)
NonceSearchDown(c, start, end) ==
    IF start >= end THEN -1
    ELSE IF valid_proof(WithNonce(c, end - 1), TRUE) THEN end - 1
    ELSE NonceSearchDown(c, start, end - 1)

\* the loop of _process_nonce_batch over range(start, end): the first nonce
\* whose proof is valid, or -1 for None
RECURSIVE NonceSearch(_, _, _)
NonceSearch(c, start, end) ==
    IF start >= end THEN -1
    ELSE IF valid_proof(WithNonce(c, start), TRUE) THEN start
    ELSE NonceSearch(c, start + 1, end)

\* BlockchainHelper._process_nonce_batch(block_bytes, start, end)
_process_nonce_batch(block_bytes, start, end) ==
    IF Len(block_bytes) = 0 \/ ~(start < end) THEN Fail("AssertionError")
    ELSE Then(from_bytes_chain(block_bytes), LAMBDA r :
         Ok(<<>>, NonceSearch(r.v, start, end)))

\* a pool process given the serialized chain of the tip and a range:
\* BlockchainHelper._process_nonce_batch(block_bytes, start, end)
CallProcessNonceBatch ==
    /\ pc = "idle"
    /\ tip # <<>>
    /\ \E start \in 0..MaxNonce, end \in 0..(MaxNonce + 1) :
          LET r == _process_nonce_batch(ChainBytes(tip), start, end) IN
          out' = [op |-> "_process_nonce_batch", block |-> tip, start |-> start,
                  end |-> end, err |-> r.err, ret |-> r.v]
    /\ UNCHANGED <<wallets, tip, chainStore, mempool, pc, miner>>

\* block timestamps of those chains: with and without qualifying nonces
WorkerTimes == {1, 2}

\* the chains whose serialization a worker is given: one or two blocks, each
\* holding a coinbase
WorkerChains ==
    LET blocks == {BlockRec(<<cb>>, t, n) :
                      cb \in Coinbases, t \in WorkerTimes, n \in BlockNonces}
    IN {<<g>> : g \in blocks} \cup {<<g, b>> : g \in blocks, b \in blocks}

InitWorker ==
    /\ wallets = Registered
    /\ tip \in WorkerChains
    /\ chainStore = Missing
    /\ mempool = Missing
    /\ out = NoCall
    /\ pc = "idle"
    /\ miner = Idle

\* transactions met only as bytes: no inputs, and outputs other than the one
\* output a CoinbaseTransaction is built with
ForgedCoinbases ==
    {[cls |-> "CoinbaseTransaction", timestamp |-> 1, inputs |-> <<>>,
      outputs |-> outs, signatures |-> <<>>] :
        outs \in {<<>>, <<Output("A", 2 * REWARD)>>,
                  <<Output("A", REWARD), Output("B", REWARD)>>}}

\* Transaction.from_bytes on the bytes of a transaction; encoded is the
\* transaction whose fields the bytes hold
CallTransactionFromBytes ==
    /\ pc = "idle"
    /\ \E t \in Coinbases \cup CoinbaseSpends \cup ForgedCoinbases :
          LET r == TransactionFromBytes(TxBytes(t)) IN
          out' = [op |-> "Transaction.from_bytes", encoded |-> t,
                  err |-> r.err, rest |-> r.b, tx |-> r.v]
    /\ UNCHANGED <<wallets, tip, chainStore, mempool, pc, miner>>

MaxLeaves == 4         \* most leaves a merkle root is asked for

\* the digests used as leaves
LeafIds == {TxId(t) : t \in Coinbases \cup CoinbaseSpends}

\* HashHelper.calculate_merkle_root(leaves) on a non-empty sequence
CallMerkleRoot ==
    /\ pc = "idle"
    /\ \E leaves \in SeqsUpTo(LeafIds, MaxLeaves) \ {<<>>} :
          out' = [op |-> "calculate_merkle_root", leaves |-> leaves,
                  root |-> calculate_merkle_root(leaves)]
    /\ UNCHANGED <<wallets, tip, chainStore, mempool, pc, miner>>

NextMerkle == CallMerkleRoot

SpecMerkle == Init /\ [][NextMerkle]_vars

\* transactions signed by A that name an outpoint of the chain c once or
\* twice and pay B the amount of one output or of two
RepeatedInputs(c) ==
    {Sign(Transaction(1, ins, <<Output("B", m)>>), "A") :
        ins \in UNION {{<<[outpoint |-> o]>>, <<[outpoint |-> o], [outpoint |-> o]>>} :
                          o \in AllOutpoints(c)},
        m \in {REWARD, 2 * REWARD}}

\* transaction.valid(tip)
CallTransactionValid ==
    /\ pc = "idle"
    /\ tip # <<>>
    /\ \E t \in RepeatedInputs(tip) :
          out' = [op |-> "Transaction.valid", tx |-> t, valid |-> TxValid(t, tip)]
    /\ UNCHANGED <<wallets, tip, chainStore, mempool, pc, miner>>

\* the calls that decode serialized chains and transactions, and the check
\* of one transaction against a chain
NextWorker ==
    \/ CallProcessNonceBatch \/ CallFromBytesChain \/ CallFromBytesChainRelinked
    \/ CallTransactionFromBytes \/ CallTransactionValid

SpecWorker == InitWorker /\ [][NextWorker]_vars

NextStore ==
    StoreNewBlock \/ SaveBlockchain \/ WriteStore \/ LoadBlockchain \/ CallFromBytesChain

SpecStore == Init /\ [][NextStore]_vars

(***************************************************************************)
(* Mining: BlockchainHelper.mine_block as the coordinator of a process     *)
(* pool, its workers (_process_nonce_batch), and the mempool file.         *)
(***************************************************************************)
NoWallet == "none"

MineWallets == {NoWallet, "A", "C"}
MineTimes == {1, 2}
Processes == {1, 2}
BatchSizes == {1, MaxNonce}

\* the chains mine_block is called on: none, or a genesis block holding a
\* coinbase whose proof is valid or not
MineTips ==
    {<<>>} \cup {<<BlockRec(<<cb>>, t, n)>> : cb \in Coinbases, t \in BlockTimes, n \in BlockNonces}

\* the transactions saved to the mempool next to a chain c
MempoolChoices(c) ==
    {CoinbaseTransaction(1, "B")}
    \cup {Transfer(o, f) : o \in AllOutpoints(c),
                           f \in {g \in TransferForms : g.to = "B" /\ g.signer = "A"}}

\* the transactions a byte string holds, one timestamp field each
CountTxs(b) == Cardinality({i \in 1..Len(b) : b[i].k = "q"})

\* TransactionHelper.load_waiting_transactions (core/helper/transaction.py)
RECURSIVE WaitingLoop(_, _)
WaitingLoop(b, acc) ==
    IF Len(b) = 0 THEN Ok(b, acc)
    ELSE Then(TransactionFromBytes(b), LAMBDA r : WaitingLoop(r.b, acc \cup {r.v}))

load_waiting_transactions(s) ==
    IF ~s.exists THEN Fail("FileNotFoundError") ELSE WaitingLoop(s.bytes, {})

\* mine_block up to the start of the search: the candidate block and the
\* bytes frozen for the workers, or the error raised before the search
Candidate(latest, wallet, now, order) ==
    LET txs == (IF wallet = NoWallet THEN <<>> ELSE <<CoinbaseTransaction(now, wallet)>>)
               \o order
        block == Append(latest, BlockRec(txs, now, 0))
    IN IF ~BlockInitOk(txs) THEN Fail("AssertionError")
       ELSE IF ~valid_transactions(block, TRUE) THEN Fail("Exception")
       ELSE IF Len(txs) = 0 THEN Fail("IndexError")
       ELSE Ok(SavedBytes(block), block)

\* how mine_block was called: by a caller holding the chain tip, or by the
\* mine command (cli), which loads the chain from the store and runs
\* mine_block(latest_block, wallet) with the default pool of one process
MineCall(wallet, cli, latest) ==
    [wallet |-> wallet, cli |-> cli, latest |-> latest,
     before |-> [mempool |-> mempool, chainStore |-> chainStore]]

\* the end of a call: err and ret are the exception and the return value of
\* mine_block (of load_blockchain when the command fails there), cmd the
\* exception with which the caller's handling of the result ends, before the
\* two files as the call found them
MineOutcome(call, err, ret, block) ==
    [op |-> "mine_block", err |-> err, ret |-> ret, latest |-> call.latest,
     block |-> block, wallet |-> call.wallet, cli |-> call.cli,
     cmd |-> IF err = "ok" /\ ret # <<>> /\ call.cli THEN "AttributeError" ELSE err,
     before |-> call.before]

\* BlockchainHelper.mine_block(latest, wallet, processes, batch_size) from the
\* call to the first pass of the loop; the mine command (cli/_mine.py) gets
\* latest from load_blockchain() first
MineStart ==
    /\ pc = "idle"
    /\ \E wallet \in MineWallets, processes \in Processes, batch_size \in BatchSizes,
          now \in MineTimes, cli \in BOOLEAN :
          /\ cli => (wallet # NoWallet /\ processes = 1 /\ batch_size = 1)
          /\ LET loaded == IF cli THEN load_blockchain(chainStore) ELSE Ok(<<>>, tip)
                 call == MineCall(wallet, cli, loaded.v)
                 latest == loaded.v
             IN
             IF loaded.err # "ok"
             THEN /\ out' = MineOutcome(call, loaded.err, <<>>, <<>>)
                  /\ UNCHANGED <<pc, miner>>
             ELSE IF latest # <<>> /\ ~valid(latest, FALSE)
             THEN /\ out' = MineOutcome(call, "ValueError", <<>>, <<>>)
                  /\ UNCHANGED <<pc, miner>>
             ELSE LET w == load_waiting_transactions(mempool) IN
                  IF w.err # "ok"
                  THEN /\ out' = MineOutcome(call, w.err, <<>>, <<>>)
                       /\ UNCHANGED <<pc, miner>>
                  ELSE \E order \in SetToSeqs({t \in w.v : TxValid(t, latest)}) :
                          LET c == Candidate(latest, wallet, now, order) IN
                          IF c.err # "ok"
                          THEN /\ out' = MineOutcome(call, c.err, <<>>, <<>>)
                               /\ UNCHANGED <<pc, miner>>
                          ELSE /\ pc' = "mining"
                               /\ miner' = [phase |-> "mining", call |-> call,
                                            block |-> c.v,
                                            block_bytes |-> c.b, start |-> 0,
                                            pending |-> {}, submitted |-> 0,
                                            processes |-> processes,
                                            batch_size |-> batch_size]
                               /\ out' = [op |-> "mine_block", err |-> "running"]
    /\ UNCHANGED <<wallets, tip, chainStore, mempool>>

Min(a, b) == IF a < b THEN a ELSE b

\* the pass of the loop without the wait at a full pool
SubmitAtFullPool ==
    /\ pc = "mining"
    /\ miner.start <= MaxNonce
    /\ Cardinality(miner.pending) <= miner.processes
    /\ LET end == Min(miner.start + miner.batch_size, MaxNonce) IN
       miner' = [miner EXCEPT
                    !.pending = @ \cup {[id |-> miner.submitted, start |-> miner.start,
                                         end |-> end, done |-> FALSE,
                                         result |-> Ok(<<>>, -1)]},
                    !.submitted = @ + 1,
                    !.start = end]
    /\ UNCHANGED <<wallets, tip, chainStore, mempool, out, pc>>

\* a pass of the loop with fewer than `processes` futures pending:
\* executor.submit of the next batch
Submit ==
    /\ pc = "mining"
    /\ miner.start <= MaxNonce
    /\ Cardinality(miner.pending) < miner.processes
    /\ LET end == Min(miner.start + miner.batch_size, MaxNonce) IN
       miner' = [miner EXCEPT
                    !.pending = @ \cup {[id |-> miner.submitted, start |-> miner.start,
                                         end |-> end, done |-> FALSE,
                                         result |-> Ok(<<>>, -1)]},
                    !.submitted = @ + 1,
                    !.start = end]
    /\ UNCHANGED <<wallets, tip, chainStore, mempool, out, pc>>

\* a pool process runs a submitted batch to its end
Worker ==
    /\ pc = "mining"
    /\ \E f \in miner.pending :
          /\ ~f.done
          /\ miner' = [miner EXCEPT !.pending = (@ \ {f}) \cup
                {[f EXCEPT !.done = TRUE,
                           !.result = _process_nonce_batch(miner.block_bytes, f.start, f.end)]}]
    /\ UNCHANGED <<wallets, tip, chainStore, mempool, out, pc>>

\* a pass of the loop with `processes` futures pending: wait for the first
\* to complete, then future.result() of each completed one
WaitCollect ==
    /\ pc = "mining"
    /\ miner.start <= MaxNonce
    /\ Cardinality(miner.pending) >= miner.processes
    /\ LET done == {f \in miner.pending : f.done}
           raised == {f \in done : f.result.err # "ok"}
           found == {f \in done : f.result.err = "ok" /\ f.result.v # -1}
       IN /\ done # {}
          /\ IF raised # {}
             THEN /\ \E f \in raised :
                       out' = MineOutcome(miner.call, f.result.err, <<>>, miner.block)
                  /\ pc' = "idle"
                  /\ miner' = Idle
                  /\ UNCHANGED chainStore
             ELSE IF found # {}
             THEN /\ \E f \in found :
                       LET mined == WithNonce(miner.block, f.result.v) IN
                       /\ out' = MineOutcome(miner.call, "ok", mined, miner.block)
                       \* the mine command: save_blockchain(mined_block), then
                       \* export_blockchain, which calls json() on the keys of
                       \* expand_chain() and ends the command before
                       \* remove_transactions
                       /\ chainStore' = IF miner.call.cli THEN File(SavedBytes(mined))
                                        ELSE chainStore
                  /\ pc' = "idle"
                  /\ miner' = Idle
             ELSE /\ miner' = [miner EXCEPT !.pending = @ \ done]
                  /\ UNCHANGED <<out, pc, chainStore>>
    /\ UNCHANGED <<wallets, tip, mempool>>

\* TransactionHelper.load_transactions (core/helpers/transaction.py)
load_transactions(s) ==
    IF ~s.exists THEN Ok(<<>>, {}) ELSE WaitingLoop(s.bytes, {})

\* TransactionHelper.save_transaction: append to the mempool file
SaveTransaction ==
    /\ pc = "idle"
    /\ CountTxs(mempool.bytes) < MaxMempool
    /\ \E t \in MempoolChoices(tip) :
          /\ mempool' = File(mempool.bytes \o TxBytes(t))
          /\ out' = [op |-> "save_transaction", tx |-> t]
    /\ UNCHANGED <<wallets, tip, chainStore, pc, miner>>

TransferAmounts == {0, 10, 20}

\* the transfer command (cli/_transfer.py): the check of the amount, the
\* loading of the chain, then latest_block.expand_transactions() and
\* latest_block.balances(...); Block has no attribute balances and None has
\* neither, so the command ends there and the lines after it never run
TransferCommand ==
    /\ pc = "idle"
    /\ \E from \in Wallets, amount \in TransferAmounts :
          LET loaded == load_blockchain(chainStore) IN
          out' = [op |-> "transfer", from |-> from, amount |-> amount,
                  err |-> IF amount <= 0 THEN "ValueError"
                          ELSE IF loaded.err # "ok" THEN loaded.err
                          ELSE "AttributeError",
                  before |-> [mempool |-> mempool, chainStore |-> chainStore]]
    /\ UNCHANGED <<wallets, tip, chainStore, mempool, pc, miner>>

InitMine ==
    /\ wallets = Registered
    /\ tip \in MineTips
    /\ chainStore = IF tip = <<>> THEN Missing ELSE File(ChainBytes(tip))
    /\ mempool \in {Missing, File(<<>>)}
    /\ out = NoCall
    /\ pc = "idle"
    /\ miner = Idle

NextMine ==
    MineStart \/ Submit \/ Worker \/ WaitCollect \/ SaveTransaction \/ TransferCommand

SpecMine == InitMine /\ [][NextMine]_vars

\* the same with the pool running every submitted batch to its end and the
\* coordinator taking every pass of its loop that it can take
SpecMineFair ==
    /\ InitMine
    /\ [][NextMine]_vars
    /\ WF_vars(Worker)
    /\ WF_vars(Submit)
    /\ WF_vars(WaitCollect)

\* the transfers of 10 by A, to A or to B, of each outpoint of the chain c
WaitingSpends(c) ==
    {Transfer(o, f) : o \in AllOutpoints(c),
                      f \in {g \in TransferForms : g.signer = "A" /\ g.amount = REWARD}}

\* the chains of MineTips, and those followed by a block holding one
\* transfer of the coinbase output
SpendTips ==
    MineTips \cup UNION {{Append(g, BlockRec(<<t>>, ts, n)) :
                             t \in WaitingSpends(g), ts \in BlockTimes, n \in BlockNonces} :
                         g \in {c \in MineTips \ {<<>>} : valid(c, FALSE)}}

\* mining when the mempool holds what earlier save_transaction calls left:
\* transfers of the outputs of the chain, those the chain holds among them
\* (the loader returns a set, so one order of the file stands for all)
InitSpend ==
    /\ wallets = Registered
    /\ tip \in SpendTips
    /\ chainStore = IF tip = <<>> THEN Missing ELSE File(ChainBytes(tip))
    /\ \E S \in {R \in SUBSET WaitingSpends(tip) : Cardinality(R) <= MaxMempool} :
          LET order == CHOOSE q \in SetToSeqs(S) : TRUE IN
          mempool = File(Concat([i \in 1..Len(order) |-> TxBytes(order[i])]))
    /\ out = NoCall
    /\ pc = "idle"
    /\ miner = Idle

NextSpend == MineStart \/ Submit \/ Worker \/ WaitCollect

SpecSpend == InitSpend /\ [][NextSpend]_vars

(***************************************************************************)
(* Properties of validation and traversal, checked under Spec.             *)
(***************************************************************************)
\* positions <<block, index>> of the transactions of a chain
Positions(c) == {<<i, j>> \in (1..Len(c)) \X (1..MaxChainTxs) : j <= Len(c[i].transactions)}

TxAt(c, p) == c[p[1]].transactions[p[2]]

InputOutpoints(t) == {t.inputs[i].outpoint : i \in 1..Len(t.inputs)}

\* two distinct transactions of the chain whose inputs name a common outpoint
DoubleSpend(c) ==
    \E p, q \in Positions(c) :
        /\ TxId(TxAt(c, p)) # TxId(TxAt(c, q))
        /\ InputOutpoints(TxAt(c, p)) \cap InputOutpoints(TxAt(c, q)) # {}

\* C2: a chain in which two distinct transactions spend the same outpoint
\* fails valid_transactions(shallow=False).
C2_DoubleSpendRejected ==
    (out.op = "valid" /\ DoubleSpend(tip)) => ~out.transactions[FALSE]

\* the distinct transactions of a chain, one per transaction id
TxSet(c) == {TxAt(c, p) : p \in Positions(c)}

\* the outputs of the chain as <<outpoint, output>> pairs
OutputPairs(c) ==
    UNION {{<<Outpoint(TxId(t), j - 1), t.outputs[j]>> : j \in 1..Len(t.outputs)} : t \in TxSet(c)}

\* the outpoints named by an input of some transaction of the chain
SpentOutpoints(c) == UNION {InputOutpoints(t) : t \in TxSet(c)}

RECURSIVE SumAmounts(_)
SumAmounts(S) ==
    IF S = {} THEN 0
    ELSE LET x == CHOOSE y \in S : TRUE IN x[2].amount + SumAmounts(S \ {x})

Paid(c, a) == SumAmounts({x \in OutputPairs(c) : x[2].address = a})

Consumed(c, a) ==
    SumAmounts({x \in OutputPairs(c) : x[2].address = a /\ x[1] \in SpentOutpoints(c)})

\* C4: on a deeply valid chain the balance of every address (the sum over
\* its entries of unspent_outpoints) equals the output amounts paid to it by
\* the transactions of the chain minus the amounts of its outputs that an
\* input of some transaction names; a transaction is counted once.
C4_BalanceConservation ==
    (out.op = "balance" /\ valid(tip, FALSE)) =>
        \A a \in Wallets : out.balances[a] = Paid(tip, a) - Consumed(tip, a)

C4_Witness ==
    /\ out.op = "balance"
    /\ valid(tip, FALSE)
    /\ \E a \in Wallets : Consumed(tip, a) > 0 /\ out.balances[a] > 0

\* the amounts of the outputs of the chain that the inputs of t name
InputSum(c, t) ==
    SumAmounts({x \in OutputPairs(c) : x[1] \in InputOutpoints(t)})

InputsExist(c, t) ==
    \A o \in InputOutpoints(t) : \E x \in OutputPairs(c) : x[1] = o

Overspends(c, t) == InputsExist(c, t) /\ TotalSpent(t) > InputSum(c, t)

\* C5: every non-coinbase transaction of a deeply valid chain names existing
\* outputs whose amounts sum to at least the sum of its own outputs, and the
\* shallow check of a block fails when one of its non-coinbase transactions
\* pays out more than the outputs it names in the chain before the block.
C5_AmountConservation ==
    /\ (out.op = "valid" /\ out.proof[FALSE] /\ out.transactions[FALSE]) =>
          \A t \in TxSet(tip) :
              ~IsCoinbase(t) => InputsExist(tip, t) /\ InputSum(tip, t) >= TotalSpent(t)
    /\ (out.op = "valid"
          /\ \E j \in 1..Len(Last(tip).transactions) :
                /\ ~IsCoinbase(Last(tip).transactions[j])
                /\ Overspends(Front(tip), Last(tip).transactions[j])) =>
          ~out.transactions[TRUE]

C5_Witness ==
    /\ out.op = "valid"
    /\ out.proof[FALSE] /\ out.transactions[FALSE]
    /\ \E t \in TxSet(tip) : ~IsCoinbase(t) /\ InputSum(tip, t) = TotalSpent(t)
    /\ \E t \in TxSet(tip) : IsCoinbase(t) /\ TotalSpent(t) > 0

C8_SaveThenLoad ==
    /\ (out.op = "save_blockchain" /\ out.err = "ok") =>
          chainStore = File(ChainBytes(out.saved))
    /\ (out.op = "load_blockchain" /\ out.saved # <<>> /\ valid(out.saved, FALSE)) =>
          /\ out.err = "ok"
          /\ out.ret # <<>>
          /\ BlockId(out.ret) = BlockId(out.saved)
          /\ Len(out.ret) = Len(out.saved)

\* C10: load_blockchain returns none exactly when the store is missing or
\* empty; on any other store it returns a deeply valid tip or fails with the
\* error kind of InvalidEncoding and InvalidChain (ValueError).
C10_LoadOutcome ==
    out.op = "load_blockchain" =>
        /\ (out.err = "ok" /\ out.ret = <<>>) <=>
              (~chainStore.exists \/ chainStore.bytes = <<>>)
        /\ (out.err = "ok" /\ out.ret # <<>>) => valid(out.ret, FALSE)
        /\ out.err \in {"ok", "ValueError"}

(***************************************************************************)
(* Properties of mining, checked under SpecMine.                           *)
(***************************************************************************)
\* a call of mine_block that got as far as the nonce search and has ended
MineEnded == out.op = "mine_block" /\ out.err # "running" /\ out.block # <<>>

\* C1: once mine_block has assembled its candidate, it either returns none
\* or returns a block whose proof is valid, whose transactions pass the
\* shallow validity check and whose previous block is the tip it was given.
C1_MineReturnsNoneOrValidBlock ==
    MineEnded =>
        /\ out.err = "ok"
        /\ \/ out.ret = <<>>
           \/ /\ valid_proof(out.ret, TRUE)
              /\ valid_transactions(out.ret, TRUE)
              /\ Front(out.ret) = out.latest

\* no nonce of the space gives the candidate a valid proof
Exhausted(c) == \A n \in 0..MaxNonce : ~valid_proof(WithNonce(c, n), TRUE)

\* C3: when no nonce from 0 to the last of the space gives the candidate a
\* valid proof, mine_block returns none.
C3_ExhaustionReturnsNone ==
    (MineEnded /\ Exhausted(out.block)) => (out.err = "ok" /\ out.ret = <<>>)

\* the outpoints the chain created and no input of the chain names
Utxo(c) == {x[1] : x \in OutputPairs(c)} \ SpentOutpoints(c)

\* the transactions of the last block of c having an input outside the UTXO
\* set of the chain before that block
OutsideUtxo(c) ==
    {j \in 1..Len(Last(c).transactions) :
        InputOutpoints(Last(c).transactions[j]) \ Utxo(Front(c)) # {}}

\* C11: Transaction.valid(tip) is false whenever an input names an outpoint
\* that is not in the UTXO set of the chain ending at tip (never created, or
\* already spent there); with no tip every transaction with inputs is
\* invalid.  Read on the shallow check of a block, which validates each of
\* its transactions against the chain before the block (none for a genesis
\* block).
C11_OutsideUtxoInvalid ==
    (out.op = "valid" /\ OutsideUtxo(tip) # {}) => ~out.transactions[TRUE]

C11_Witness ==
    /\ out.op = "valid"
    /\ valid(Front(tip), FALSE)
    /\ \E j \in OutsideUtxo(tip) :
          InputOutpoints(Last(tip).transactions[j]) \cap SpentOutpoints(Front(tip)) # {}
    /\ ~out.transactions[TRUE]

\* the address of the output an outpoint names among the outputs of the chain
OwnerOf(c, o) == (CHOOSE x \in OutputPairs(c) : x[1] = o)[2].address

Signers(t) == {t.signatures[i].wallet : i \in 1..Len(t.signatures)}

\* C12: Transaction.valid(tip) is true only if, for every input, the address
\* of the output it names is the address of the wallet of one of the
\* signatures; a block holding a transaction that lacks the signature of an
\* input-owning address fails the shallow check.
C12_InputOwnersSigned ==
    (out.op = "valid" /\ out.transactions[TRUE]) =>
        \A j \in 1..Len(Last(tip).transactions) :
            LET t == Last(tip).transactions[j] IN
            \A o \in InputOutpoints(t) : OwnerOf(Front(tip), o) \in Signers(t)

C12_Witness ==
    /\ out.op = "valid"
    /\ out.transactions[TRUE]
    /\ \E j \in 1..Len(Last(tip).transactions) :
          /\ InputOutpoints(Last(tip).transactions[j]) # {}
          /\ Signers(Last(tip).transactions[j]) # Wallets

\* C15: valid_proof(shallow=True) is true exactly when id() < TARGET, and
\* valid_proof(shallow=False) exactly when every block from the genesis
\* block to the tip has id() < TARGET.
C15_ProofIffBelowTarget ==
    out.op = "valid" =>
        /\ out.proof[TRUE] <=> IdCompareTarget(tip) < 0
        /\ out.proof[FALSE] <=> \A i \in 1..Len(tip) : IdCompareTarget(Prefix(tip, i)) < 0

C15_Witness ==
    /\ out.op = "valid"
    /\ out.proof[TRUE] /\ ~out.proof[FALSE]
    /\ \E i \in 1..Len(tip) : IdCompareTarget(Prefix(tip, i)) = 0

(***************************************************************************)
(* Signing (Transaction.sign, Wallet.sign_transaction): a transaction is   *)
(* built unsigned and then handed to wallets, any number of times each.    *)
(***************************************************************************)
SignOutpoints == {Dangling} \cup {Outpoint(TxId(t), 0) : t \in Coinbases}

Unsigned ==
    Coinbases
    \cup {Transaction(f.ts, <<[outpoint |-> o]>>, <<Output(f.to, f.amount)>>) :
             o \in SignOutpoints, f \in TransferForms}

\* Transaction(inputs, outputs) / CoinbaseTransaction(address)
NewTransaction ==
    /\ pc = "idle"
    /\ \E t \in Unsigned : out' = [op |-> "Transaction", tx |-> t]
    /\ UNCHANGED <<wallets, tip, chainStore, mempool, pc, miner>>

\* wallet.sign_transaction(transaction), which ends in transaction.sign
SignTransaction ==
    /\ pc = "idle"
    /\ out.op \in {"Transaction", "sign_transaction"}
    /\ \E w \in Wallets :
          out' = [op |-> "sign_transaction", wallet |-> w,
                  before |-> out.tx.signatures,
                  err |-> IF CanSign(out.tx, w) THEN "ok" ELSE "AssertionError",
                  tx |-> IF CanSign(out.tx, w) THEN Sign(out.tx, w) ELSE out.tx]
    /\ UNCHANGED <<wallets, tip, chainStore, mempool, pc, miner>>

InitSign ==
    /\ wallets = Registered
    /\ tip = <<>>
    /\ chainStore = Missing
    /\ mempool = Missing
    /\ out = NoCall
    /\ pc = "idle"
    /\ miner = Idle

NextSign == NewTransaction \/ SignTransaction

SpecSign == InitSign /\ [][NextSign]_vars

\* C18: after any sequence of sign operations no wallet appears more than
\* once in transaction.signatures; signing with a wallet that has signed
\* already fails with the assertion error of Transaction.sign and leaves the
\* signatures as they were.
C18_OneSignaturePerWallet ==
    out.op \in {"Transaction", "sign_transaction"} =>
        /\ \A i, j \in 1..Len(out.tx.signatures) :
              out.tx.signatures[i].wallet = out.tx.signatures[j].wallet => i = j
        /\ (out.op = "sign_transaction"
              /\ \E i \in 1..Len(out.before) : out.before[i].wallet = out.wallet) =>
              out.err = "AssertionError" /\ out.tx.signatures = out.before

C18_Witness ==
    /\ out.op = "sign_transaction"
    /\ out.err = "AssertionError"
    /\ Len(out.tx.signatures) = 2
    /\ out.tx.signatures = out.before

(***************************************************************************)
(* Properties of the mine and transfer commands, checked under SpecMine.   *)
(***************************************************************************)
\* the transactions a mempool file holds
MempoolTxs(s) == IF ~s.exists THEN {} ELSE WaitingLoop(s.bytes, {}).v

\* a call of mine_block with a candidate for which a nonce of the space
\* gives a valid proof, that is, a call that has a block to mine
HasBlockToMine == MineEnded /\ ~Exhausted(out.block)

BlockTxs(c) == {Last(c).transactions[i] : i \in 2..Len(Last(c).transactions)}

\* C13: the block mine_block(tip, wallet) returns holds a coinbase paying
\* REWARD to wallet.address() at index 0, followed by exactly the mempool
\* transactions valid against tip; with no tip it is a genesis block, whose
\* header starts with the 32 zero bytes.  Read on the calls that have a
\* block to mine.
C13_MinedBlockContent ==
    (HasBlockToMine /\ out.wallet # NoWallet) =>
        /\ out.err = "ok" /\ out.ret # <<>>
        /\ Front(out.ret) = out.latest
        /\ LET txs == Last(out.ret).transactions
               waiting == {t \in MempoolTxs(out.before.mempool) : TxValid(t, out.latest)}
           IN /\ IsCoinbase(txs[1])
              /\ txs[1].outputs = <<Output(out.wallet, REWARD)>>
              /\ BlockTxs(out.ret) = waiting
              /\ Len(txs) = 1 + Cardinality(waiting)
        /\ out.latest = <<>> => block_header(out.ret)[1] = Raw32(ZeroId)

\* C14: after a mine command that mined a block the mempool holds exactly
\* the waiting transactions the block does not include; a mine command that
\* produces no block or fails leaves the mempool and the chain store as they
\* were.
C14_MempoolAfterMine ==
    (out.op = "mine_block" /\ out.err # "running" /\ out.cli) =>
        IF HasBlockToMine
        THEN MempoolTxs(mempool) = MempoolTxs(out.before.mempool) \ BlockTxs(out.block)
        ELSE mempool = out.before.mempool /\ chainStore = out.before.chainStore

\* the balance of an address at the tip c
BalanceAt(c, a) ==
    IF c = <<>> THEN 0 ELSE sum_unspent_outpoints(unspent_outpoints(c, NoFilter), a)

\* the chains in which A owns one coinbase output of REWARD and nothing else
\* exists, and the transfer of it to B that A signs
OneCoinbaseOfA(c) ==
    /\ Len(c) = 1
    /\ Len(c[1].transactions) = 1
    /\ IsCoinbase(c[1].transactions[1])
    /\ c[1].transactions[1].outputs = <<Output("A", REWARD)>>

TransferAToB(c) ==
    Transfer(Outpoint(TxId(c[1].transactions[1]), 0),
             [ts |-> 1, to |-> "B", amount |-> REWARD, signer |-> "A"])

\* C16: from a chain where A owns one coinbase output of 10, with the
\* transfer of 10 from A to B signed by A waiting in the mempool, the block
\* mined with the reward wallet C holds exactly the coinbase to C and then
\* the transfer, and the balances at the new tip are A: 0, B: 10, C: 10.
C16_TransferThenMine ==
    (/\ HasBlockToMine
     /\ out.wallet = "C"
     /\ OneCoinbaseOfA(out.latest)
     /\ MempoolTxs(out.before.mempool) = {TransferAToB(out.latest)}) =>
        /\ out.err = "ok" /\ out.ret # <<>>
        /\ Len(Last(out.ret).transactions) = 2
        /\ IsCoinbase(Last(out.ret).transactions[1])
        /\ Last(out.ret).transactions[1].outputs = <<Output("C", REWARD)>>
        /\ Last(out.ret).transactions[2] = TransferAToB(out.latest)
        /\ BalanceAt(out.ret, "A") = 0
        /\ BalanceAt(out.ret, "B") = REWARD
        /\ BalanceAt(out.ret, "C") = REWARD

\* the funds the transfer command finds for an address in the chain store
FundsOf(s, a) ==
    LET loaded == load_blockchain(s) IN
    IF loaded.err # "ok" THEN 0 ELSE BalanceAt(loaded.v, a)

\* C17: a transfer of a positive amount greater than the sender's balance
\* fails with the error of insufficient funds (a ValueError) before a
\* transaction is created: the mempool and the chain are unchanged.
C17_InsufficientFundsRejected ==
    (/\ out.op = "transfer"
     /\ out.amount > 0
     /\ load_blockchain(out.before.chainStore).err = "ok"
     /\ out.amount > FundsOf(out.before.chainStore, out.from)) =>
        /\ out.err = "ValueError"
        /\ mempool = out.before.mempool
        /\ chainStore = out.before.chainStore

(***************************************************************************)
(* Properties of decoding damaged stores, checked under SpecStore.         *)
(***************************************************************************)
\* C19: a decoder given a truncated stream fails with the one error kind of
\* InvalidEncoding (ValueError) and returns no entity; no other kind of
\* error escapes.  Read on load_blockchain, which passes the errors of the
\* chain decoder and of every decoder under it through, on a store holding a
\* serialized chain with its last fields cut off.
C19_TruncatedStreamIsInvalidEncoding ==
    (out.op = "load_blockchain" /\ out.written = "cut") =>
        (out.err = "ValueError" /\ out.ret = <<>>)

\* C20: for a deeply valid serialized chain of two blocks or more, changing
\* the amount of an output inside a block before the last makes
\* load_blockchain fail with the error kind of InvalidEncoding and
\* InvalidChain (ValueError); it returns no chain.
C20_TamperedAmountRejected ==
    (out.op = "load_blockchain" /\ out.written = "tampered") =>
        (out.err = "ValueError" /\ out.ret = <<>>)

(***************************************************************************)
(* The wallet registry (Wallet.save, Wallet.create_new_wallet): a private  *)
(* key is a record of its address and a serial number, so that two keys    *)
(* can have one address; wallets maps each address that has a directory in *)
(* data/wallets to the key in its private.pem.                             *)
(***************************************************************************)
\* a wallet directory without a private.pem
NoKey == [address |-> "", serial |-> 0]

PrivateKeys == {[address |-> a, serial |-> n] : a \in Wallets, n \in {1, 2}}

\* what the file system does to makedirs and to the writing of private.pem
IoOutcomes == {"ok", "makedirs fails", "write fails"}

\* save that writes over the directory of an address already present
saveOverwriting(reg, key, io) ==
    IF io = "makedirs fails" THEN [err |-> "RuntimeError", wallets |-> reg]
    ELSE IF io = "write fails"
    THEN [err |-> "RuntimeError", wallets |-> (key.address :> NoKey) @@ reg]
    ELSE [err |-> "ok", wallets |-> (key.address :> key) @@ reg]

\* Wallet.save on the registry reg: [err, wallets]
save(reg, key, io) ==
    IF key.address \in DOMAIN reg THEN [err |-> "FileExistsError", wallets |-> reg]
    ELSE IF io = "makedirs fails" THEN [err |-> "RuntimeError", wallets |-> reg]
    ELSE IF io = "write fails"
    THEN [err |-> "RuntimeError", wallets |-> (key.address :> NoKey) @@ reg]
    ELSE [err |-> "ok", wallets |-> (key.address :> key) @@ reg]

\* Wallet(private_key).save()
SaveWallet ==
    /\ pc = "idle"
    /\ \E key \in PrivateKeys, io \in IoOutcomes :
          LET r == save(wallets, key, io) IN
          /\ wallets' = r.wallets
          /\ out' = [op |-> "save", key |-> key, err |-> r.err, before |-> wallets]
    /\ UNCHANGED <<tip, chainStore, mempool, pc, miner>>

\* Wallet.create_new_wallet: generate_new_private_key tests os.path.isdir on
\* a path formatted from the address as a bytes object, never the hex name of
\* a wallet directory, so its loop ends with the first key generated,
\* whatever the registry holds; then save
CreateNewWallet ==
    /\ pc = "idle"
    /\ \E key \in PrivateKeys, io \in IoOutcomes :
          LET r == save(wallets, key, io) IN
          /\ wallets' = r.wallets
          /\ out' = [op |-> "create_new_wallet", key |-> key, err |-> r.err,
                     before |-> wallets]
    /\ UNCHANGED <<tip, chainStore, mempool, pc, miner>>

InitWallet ==
    /\ wallets = [a \in {} |-> NoKey]
    /\ tip = <<>>
    /\ chainStore = Missing
    /\ mempool = Missing
    /\ out = NoCall
    /\ pc = "idle"
    /\ miner = Idle

NextWallet == SaveWallet \/ CreateNewWallet

SpecWallet == InitWallet /\ [][NextWallet]_vars

\* C21: saving a wallet whose address is already in the registry fails with
\* FileExistsError (Conflict) and leaves the entry as it was; every save and
\* every create_new_wallet leaves each address of the registry mapped to
\* what it was mapped to before, so it keeps the key first saved under it.
C21_SaveNeverOverwrites ==
    out.op \in {"save", "create_new_wallet"} =>
        /\ out.key.address \in DOMAIN out.before => out.err = "FileExistsError"
        /\ \A a \in DOMAIN out.before :
              a \in DOMAIN wallets /\ wallets[a] = out.before[a]

C21_Witness ==
    /\ out.op = "save"
    /\ out.err = "FileExistsError"
    /\ out.key.address \in DOMAIN out.before
    /\ out.before[out.key.address] \in PrivateKeys \ {out.key}
    /\ wallets = out.before

(***************************************************************************)
(* Properties of the coordinator and its workers, checked under SpecMine.  *)
(***************************************************************************)
\* C22: the bytes mine_block freezes for its workers are the serialization
\* of the full chain, genesis first, up to and including the candidate with
\* nonce 0, and the block a worker rebuilds from them gives, for every
\* nonce, the proof verdict of the coordinator's candidate with that nonce.
C22_FrozenBytesAreTheChain ==
    pc = "mining" =>
        /\ miner.block_bytes = ChainBytes(miner.block)
        /\ LET r == from_bytes_chain(miner.block_bytes) IN
           /\ r.err = "ok"
           /\ \A n \in 0..MaxNonce :
                 valid_proof(WithNonce(r.v, n), TRUE)
                    <=> valid_proof(WithNonce(miner.block, n), TRUE)

\* C23: the batches the coordinator dispatches are the ranges of batch_size
\* nonces taken in increasing order from 0, the last one possibly shorter
\* and ending after the last nonce of the space; none is empty.
C23_BatchesPartitionNonceSpace ==
    pc = "mining" =>
        \A f \in miner.pending :
            /\ f.start = f.id * miner.batch_size
            /\ f.start < f.end
            /\ f.end = Min(f.start + miner.batch_size, MaxNonce + 1)

\* C24: while mine_block searches, the batches dispatched and not yet
\* collected never number more than `processes`; with `processes` of them
\* pending the coordinator dispatches nothing, and the next step it takes is
\* the collection of the completed ones.
C24_PendingAtMostProcesses ==
    /\ [](pc = "mining" => Cardinality(miner.pending) <= miner.processes)
    /\ [][(pc = "mining" /\ pc' = "mining"
           /\ Cardinality(miner.pending) >= miner.processes)
          => /\ miner'.submitted = miner.submitted
             /\ \/ {f \in miner'.pending : f.done} # {}
                \/ Cardinality(miner'.pending) < miner.processes]_vars

C24_Witness ==
    /\ pc = "mining"
    /\ miner.processes = 2
    /\ Cardinality(miner.pending) = 2
    /\ \E f \in miner.pending : f.done

\* the nonces of the range of batch f that give the candidate a valid proof
Qualifying(f) ==
    {n \in f.start..(f.end - 1) : valid_proof(WithNonce(miner.block, n), TRUE)}

\* C25: when the coordinator collects completed batches and one of them has
\* a nonce to report, mine_block ends at that step, returning the candidate
\* with a nonce of one of the completed batches.
C25_FoundNonceEndsSearch ==
    [][(/\ pc = "mining"
        /\ Cardinality(miner.pending) >= miner.processes
        /\ \E f \in miner.pending : f.done /\ Qualifying(f) # {}
        /\ out' # out)
       => /\ pc' = "idle"
          /\ out'.err = "ok"
          /\ \E f \in miner.pending :
                /\ f.done
                /\ \E n \in Qualifying(f) : out'.ret = WithNonce(miner.block, n)]_vars

(***************************************************************************)
(* The worker function on a well-formed serialized chain (SpecWorker).     *)
(***************************************************************************)
\* the nonces of the range of the last call that give its block a valid proof
InRange == {n \in out.start..(out.end - 1) : valid_proof(WithNonce(out.block, n), TRUE)}

\* the last call returned the smallest qualifying nonce of its range, or
\* None when the range holds none
SmallestOrNone ==
    /\ out.err = "ok"
    /\ IF InRange = {} THEN out.ret = -1
       ELSE out.ret \in InRange /\ \A m \in InRange : out.ret <= m

\* C26 as stated, for every start and end: _process_nonce_batch returns the
\* smallest nonce of start..end-1 whose proof is valid, None if there is
\* none.
C26_SmallestOrNoneAnyRange ==
    out.op = "_process_nonce_batch" => SmallestOrNone

\* C26: for start < end, _process_nonce_batch on the serialized chain of a
\* block returns the smallest nonce n with start <= n < end for which the
\* block with nonce n has a valid proof, None if no nonce of the range has,
\* and never a nonce outside the range; for start >= end it fails with
\* AssertionError.
C26_SmallestNonceOfRange ==
    out.op = "_process_nonce_batch" =>
        IF out.start < out.end THEN SmallestOrNone
        ELSE out.err = "AssertionError"

C26_Witness ==
    /\ out.op = "_process_nonce_batch"
    /\ out.err = "ok"
    /\ out.ret > out.start
    /\ \E m \in InRange : m > out.ret

(***************************************************************************)
(* Validation of the transactions of one block (Spec).                     *)
(***************************************************************************)
\* the last block of c with transaction j alone in it
Alone(c, j) ==
    Append(Front(c), [Last(c) EXCEPT !.transactions = <<@[j]>>])

\* transaction j of the last block of c spends an output that transaction k
\* of that block creates and that no transaction of the chain before creates
SpendsInBlock(c, j, k) ==
    /\ j # k
    /\ \E o \in InputOutpoints(Last(c).transactions[j]) :
          /\ o.transaction_id = TxId(Last(c).transactions[k])
          /\ o.output_index < Len(Last(c).transactions[k].outputs)
          /\ o \notin AllOutpoints(Front(c))

\* C27: the shallow check validates each transaction of the block against
\* the chain ending at the block's predecessor only: its verdict is the
\* conjunction of the verdicts of the transactions taken alone, whatever
\* their order, and a block with a transaction spending an output created
\* only by another transaction of the same block fails.
C27_ValidatedAgainstPredecessorOnly ==
    out.op = "valid" =>
        LET n == Len(Last(tip).transactions) IN
        /\ out.transactions[TRUE]
             <=> \A j \in 1..n : valid_transactions(Alone(tip, j), TRUE)
        /\ (\E j, k \in 1..n : SpendsInBlock(tip, j, k)) => ~out.transactions[TRUE]

C27_Witness ==
    /\ out.op = "valid"
    /\ ~out.transactions[TRUE]
    /\ \E j, k \in 1..Len(Last(tip).transactions) :
          /\ k < j
          /\ SpendsInBlock(tip, j, k)
          /\ valid_transactions(Alone(tip, k), TRUE)
          /\ LET t == Last(tip).transactions[j] IN
             /\ Signers(t) = {Last(tip).transactions[k].outputs[1].address}
             /\ TotalSpent(t) <= REWARD

(***************************************************************************)
(* The links of a decoded chain (SpecWorker).                              *)
(***************************************************************************)
\* the bytes the last call of from_bytes_chain was given
DecodedStream ==
    IF out.op = "from_bytes_chain" THEN ChainBytes(tip \o out.forged) ELSE out.bytes

\* the blocks of c are those of the stream b in its order: the first has 32
\* zero bytes as its encoded previous id, every later one the id of the
\* block before it
LinkedAsStream(b, c) ==
    /\ ChainBytes(c) = b
    /\ \A i \in 1..Len(c) :
          b[HeaderAt(c, i)] = Raw32(IF i = 1 THEN ZeroId ELSE BlockId(Prefix(c, i - 1)))

\* C28: GenesisBlock.from_bytes_chain either fails or returns the tip of a
\* chain whose blocks are those of the stream in its order, the first with
\* an encoded previous id of 32 zero bytes and every later one with the id
\* of the block decoded just before it; a stream with a previous id that
\* does not match fails with ValueError and yields no chain.
C28_DecodedChainIsLinked ==
    /\ out.op \in {"from_bytes_chain", "from_bytes_chain, relinked"} =>
          (out.err = "ok" => LinkedAsStream(DecodedStream, out.block))
    /\ out.op = "from_bytes_chain, relinked" =>
          out.err = "ValueError" /\ out.block = <<>>

C28_Witness ==
    /\ out.op = "from_bytes_chain, relinked"
    /\ out.err = "ValueError"
    /\ Len(tip) >= 2
    /\ out.bytes[1] = Raw32(ZeroId)
    /\ Len(out.bytes) = Len(ChainBytes(tip))
    /\ valid_proof(tip, FALSE)

(***************************************************************************)
(* The candidate block of mine_block (SpecMine).                           *)
(***************************************************************************)
\* C29: mine_block never assembles a candidate with zero transactions, so
\* the merkle root is never computed over an empty sequence: no call, also
\* not one without a reward wallet and without a valid waiting transaction,
\* ends with the IndexError of calculate_merkle_root on no leaves.
C29_CandidateHasTransactions ==
    out.op = "mine_block" => out.err # "IndexError"

(***************************************************************************)
(* The address filter of unspent_outpoints (Spec).                         *)
(***************************************************************************)
\* C30: on a deeply valid chain unspent_outpoints(S) is unspent_outpoints()
\* restricted to the outputs whose address is in S, for every set S of
\* addresses: deleting an outpoint the filtered traversal never inserted
\* changes nothing, and no unspent outpoint of S is lost.
C30_FilterIsRestriction ==
    (out.op = "balance" /\ valid(tip, FALSE)) =>
        \A S \in SUBSET Wallets :
            out.only[S] = {e \in out.unspent : e.output.address \in S}

\* a valid chain in which an output of A is spent and B holds an unspent
\* output: the traversal for {B} deletes an outpoint it never inserted
C30_Witness ==
    /\ out.op = "balance"
    /\ valid(tip, FALSE)
    /\ \E t \in TxSet(tip) : \E o \in InputOutpoints(t) : OwnerOf(tip, o) = "A"
    /\ out.only[{"B"}] # {}
    /\ out.only[{"B"}] # out.unspent

(***************************************************************************)
(* The decoding of a transaction (SpecWorker).                             *)
(***************************************************************************)
\* C31: Transaction.from_bytes gives a CoinbaseTransaction exactly when the
\* encoded number of inputs is 0; a decoded coinbase has no inputs and one
\* output of amount 10; bytes with no inputs whose outputs are not exactly
\* one output of amount 10 are rejected with ValueError.
C31_CoinbaseDecodedAsEncoded ==
    out.op = "Transaction.from_bytes" =>
        /\ out.err = "ok" =>
              /\ IsCoinbase(out.tx) <=> Len(out.encoded.inputs) = 0
              /\ IsCoinbase(out.tx) =>
                    /\ out.tx.inputs = <<>>
                    /\ Len(out.tx.outputs) = 1
                    /\ out.tx.outputs[1].amount = REWARD
        /\ (/\ Len(out.encoded.inputs) = 0
            /\ ~(Len(out.encoded.outputs) = 1 /\ out.encoded.outputs[1].amount = REWARD))
              => out.err = "ValueError"

(***************************************************************************)
(* The mempool store (SpecMine).                                           *)
(***************************************************************************)
\* C32: load_transactions reads the store to its end and returns the set of
\* the transactions saved so far, each save_transaction adding the saved
\* one to it (an equal one changes nothing, a missing store holds none);
\* and mine_block reads a missing store as the empty set, never ending with
\* FileNotFoundError.
C32_MempoolLoadsWhatWasSaved ==
    /\ [](/\ load_transactions(mempool).err = "ok"
          /\ load_transactions(mempool).b = <<>>
          /\ ~mempool.exists => load_transactions(mempool).v = {}
          /\ out.op = "mine_block" => out.err # "FileNotFoundError")
    /\ [][out'.op = "save_transaction" /\ mempool' # mempool =>
             load_transactions(mempool').v
                = load_transactions(mempool).v \cup {out'.tx}]_vars

(***************************************************************************)
(* The merkle root (SpecMerkle).                                           *)
(***************************************************************************)
\* the level above the nodes s: node i is the hash of nodes 2i-1 and 2i of
\* s, of node 2i-1 and the empty string when s has no node 2i; it has
\* ceil(Len(s) / 2) nodes
LevelAbove(s) ==
    [i \in 1..((Len(s) + 1) \div 2) |->
        sha256(<<Raw32(s[2 * i - 1])>>
               \o (IF 2 * i <= Len(s) THEN <<Raw32(s[2 * i])>> ELSE <<>>))]

RECURSIVE RootAbove(_)
RootAbove(s) == IF Len(s) = 1 THEN s[1] ELSE RootAbove(LevelAbove(s))

\* C33: for every non-empty sequence of leaves calculate_merkle_root ends
\* and returns the one node left after taking levels of ceil(n / 2) nodes,
\* each the SHA-256 of a consecutive pair, an odd level being padded with
\* the empty string; for one leaf the root is the leaf.
C33_MerkleRootOfPaddedPairs ==
    out.op = "calculate_merkle_root" =>
        /\ out.root = RootAbove(out.leaves)
        /\ Len(out.leaves) = 1 => out.root = out.leaves[1]

\* three leaves: the third is hashed with the empty string, not with itself
C33_Witness ==
    /\ out.op = "calculate_merkle_root"
    /\ Len(out.leaves) = 3
    /\ out.root = sha256(<<Raw32(sha256(<<Raw32(out.leaves[1]), Raw32(out.leaves[2])>>)),
                          Raw32(sha256(<<Raw32(out.leaves[3])>>))>>)

(***************************************************************************)
(* The amounts of the block mine_block assembles (SpecSpend).              *)
(***************************************************************************)
\* the amounts in the UTXO set of the chain c, all addresses together
TotalBalance(c) == SumItems(unspent_outpoints(c, NoFilter))

\* the coinbase transactions of the chain c, counted where they stand
CoinbasesIn(c) == Cardinality({i \in 1..Len(ChainTxs(c)) : IsCoinbase(ChainTxs(c)[i])})

\* C34: the chain ending at the block mine_block assembles from the waiting
\* transfers holds, in its UTXO set, at most 10 for each coinbase
\* transaction of the chain, also when several waiting transfers spend the
\* same outpoint.
C34_TotalBalanceBounded ==
    pc = "mining" => TotalBalance(miner.block) <= REWARD * CoinbasesIn(miner.block)

(***************************************************************************)
(* Progress of the search (SpecMineFair).                                  *)
(***************************************************************************)
\* C35: when some nonce of the space gives the candidate a valid proof and
\* every dispatched batch completes, the call of mine_block that searches
\* for it ends by returning a block.
C35_QualifyingNonceIsFound ==
    (pc = "mining" /\ ~Exhausted(miner.block))
        ~> (out.op = "mine_block" /\ out.err = "ok" /\ out.ret # <<>>)

(***************************************************************************)
(* The coinbase of the block mine_block assembles (SpecMine).              *)
(***************************************************************************)
\* C36: the block mine_block assembles holds no coinbase taken from the
\* mempool: its only coinbase is the first transaction, minted for the
\* reward wallet, and without a reward wallet it holds none.
C36_OnlyMintedCoinbase ==
    pc = "mining" =>
        LET blk == Last(miner.block) IN
        \A i \in 1..Len(blk.transactions) :
            IsCoinbase(blk.transactions[i]) =>
                /\ miner.call.wallet # NoWallet
                /\ i = 1
                /\ blk.transactions[i] = CoinbaseTransaction(blk.timestamp, miner.call.wallet)

(***************************************************************************)
(* Repeated inputs (SpecWorker).                                           *)
(***************************************************************************)
\* the inputs of t name some outpoint more than once
NamesTwice(t) ==
    \E i, j \in 1..Len(t.inputs) : i # j /\ t.inputs[i].outpoint = t.inputs[j].outpoint

\* C37: Transaction.valid is false for a transaction whose inputs name the
\* same outpoint more than once: an unspent outpoint counts once towards
\* the available amount and its second reference is refused.
C37_RepeatedInputInvalid ==
    (out.op = "Transaction.valid" /\ NamesTwice(out.tx)) => ~out.valid

\* the outpoint named twice is unspent, its owner has signed and the outputs
\* do not exceed its amount: only the repetition makes the transaction invalid
C37_Witness ==
    /\ out.op = "Transaction.valid"
    /\ NamesTwice(out.tx)
    /\ InputOutpoints(out.tx) \subseteq Utxo(tip)
    /\ \A o \in InputOutpoints(out.tx) : OwnerOf(tip, o) \in Signers(out.tx)
    /\ TotalSpent(out.tx) <= REWARD
    /\ ~out.valid

\* the transactions with inputs that a block before the last of c holds
MinedBefore(c) == {t \in TxSet(Front(c)) : ~IsCoinbase(t)}

\* C38: the block mine_block assembles holds no transaction with inputs that
\* a block of the chain before it holds, also when that transaction waits in
\* the mempool again: its inputs are spent there, so the filter drops it.
C38_MinedTransferNotMinedAgain ==
    pc = "mining" =>
        \A i \in 1..Len(Last(miner.block).transactions) :
            Last(miner.block).transactions[i] \notin MinedBefore(miner.block)

\* a search on a valid chain holding a transfer that waits in the mempool again
C38_Witness ==
    /\ pc = "mining"
    /\ MinedBefore(miner.block) \cap MempoolTxs(mempool) # {}
    /\ Len(Last(miner.block).transactions) >= 2

\* C39: mine_block never rejects the block it assembled for its
\* transactions: the waiting transactions kept were valid against the chain
\* the block is built on and a coinbase is valid, so valid_transactions()
\* of the block is true and the call never ends with the exception raised
\* when it is not.
C39_AssembledBlockPassesValidation ==
    /\ out.op = "mine_block" => out.err # "Exception"
    /\ pc = "mining" => valid_transactions(miner.block, TRUE)

\* a search for a block holding a kept waiting transaction, another waiting
\* transaction having been dropped
C39_Witness ==
    /\ pc = "mining"
    /\ \E i \in 1..Len(Last(miner.block).transactions) :
          Last(miner.block).transactions[i] \in MempoolTxs(mempool)
    /\ \E t \in MempoolTxs(mempool) :
          \A i \in 1..Len(Last(miner.block).transactions) :
              Last(miner.block).transactions[i] # t

====
